---- MODULE Spec2Model ----
(***************************************************************************)
(* Order-detail stock reservation of the e-commerce backend:               *)
(* OrderDetailService.save / update / delete on top of BaseRepositoryImpl, *)
(* run by concurrent request handlers, each with its own database session  *)
(* (one transaction, READ COMMITTED, SELECT ... FOR UPDATE row locks).     *)
(*                                                                         *)
(* Prices are fixed-point integers in units of 0.001, so the tolerance     *)
(* 0.01 of the price check is 10 units.                                    *)
(***************************************************************************)
EXTENDS Integers, FiniteSets, Sequences, TLC

\* ------------------------------------------------------------------ bounds
NumProcs == 2          \* concurrent request handlers
MaxOps   == 3          \* requests started in one behaviour
MaxQty   == 2          \* largest quantity a request asks for
MaxStock == 2          \* initial stock of product 1 (product 2 has one less)
MaxCartQty    == 2     \* largest quantity of a cart request or a guest item
MaxCartCount  == 4     \* largest item_count a cart grows to
MaxGuestItems == 2     \* most items of a guest cart handed to merge_carts

\* --------------------------------------------------------------- constants
PriceTolerance == 10   \* 0.01 in units of 0.001
NoVal  == 0 - 1        \* Python None for an optional field
NoProc == 0            \* no holder of a row lock

Procs      == 1 .. NumProcs
Products   == {1, 2}                 \* rows of the product table
ProductIds == Products \cup {3}      \* 3 names no row
Orders     == {1, 2}                 \* rows of the order table
OrderIds   == Orders \cup {3}        \* 3 names no row
DetailIds  == 1 .. MaxOps            \* ids the sequence can hand out
DetailKeys == DetailIds \cup {MaxOps + 1}   \* the last one names no row

\* ProductModel.price: 9.99 and 0.03
Price(pr) == IF pr = 1 THEN 9990 ELSE 30
InitStock(pr) == IF pr = 1 THEN MaxStock ELSE MaxStock - 1

\* offsets of a submitted price from the product's price, in units of 0.001
PriceOffsets    == {5, 20}
AllPriceOffsets == {0 - 20, 0 - 11, 0 - 10, 0 - 5, 0, 5, 10, 11, 20}
UpdatePrices == {NoVal, 4000}

NoDetail == [order |-> 0, product |-> 0, quantity |-> 0, price |-> 0]
NoReq == [kind |-> "none", id |-> 0, order |-> NoVal, product |-> NoVal,
          quantity |-> NoVal, price |-> NoVal, final |-> NoVal, extra |-> FALSE]
NoLast == [id |-> 0, stock |-> <<>>, details |-> <<>>]
RoundTripDone == 0 - 1   \* last.id once the detail of the latest Create is deleted

VARIABLES
    stock,      \* committed ProductModel.stock of every product row
    details,    \* committed order_details table: id -> row or NoDetail
    nextId,     \* next value of the order_details id sequence
    lock,       \* holder of each product row's FOR UPDATE lock
    pc,         \* where each request handler stands
    req,        \* the request a handler is serving (schema fields)
    existing,   \* the OrderDetailSchema snapshot returned by repository.find
    pending,    \* uncommitted product.stock written in the handler's session:
                \* <<>> when nothing is staged, <<stock>> otherwise
    res,        \* outcome of the handler's last request
    nops,       \* requests started so far
    last,       \* history: the committed state just before the latest Create
                \* commit, kept while no other commit than the Delete of that
                \* detail follows
    products,   \* ids of the rows the product table holds
    cart,       \* the cart Redis holds for the session: items and item_count
    cartReq     \* the cart operation served last and its arguments

vars == <<stock, details, nextId, lock, pc, req, existing, pending, res, nops, last,
          products, cart, cartReq>>

cartVars == <<cart, cartReq>>

\* a cart item: product_id and quantity (name, price and stock are carried
\* along unchanged and left out, and with them the cart's total)
CartItem(pid, q) == [product_id |-> pid, quantity |-> q]
CartItems == [product_id : ProductIds, quantity : Int]

\* get_cart for a session Redis holds no cart of
EmptyCart == [items |-> <<>>, item_count |-> 0]

\* no cart operation served yet
NoCartReq == [op |-> "none", product_id |-> NoVal, quantity |-> NoVal, guest |-> <<>>]

TypeOK ==
    /\ stock \in [Products -> Int]
    /\ details \in [DetailIds -> [order : Int, product : Int, quantity : Int, price : Int]]
    /\ nextId \in 1 .. MaxOps + 1
    /\ lock \in [Products -> Procs \cup {NoProc}]
    /\ pc \in [Procs -> {"idle", "c_lock", "c_commit", "u_lock", "u_persist",
                         "d_lock", "d_remove", "p_remove", "done"}]
    /\ res \in [Procs -> {"none", "ok", "nf_order", "nf_product", "nf_detail",
                          "insufficient", "price", "invalid", "fault",
                          "has_sales", "conflict"}]
    /\ nops \in 0 .. MaxOps
    /\ \A p \in Procs : Len(pending[p]) <= 1
    /\ products \subseteq Products
    /\ cart.items \in Seq(CartItems)
    /\ cart.item_count \in Nat
    /\ cartReq.op \in {"none", "add_item", "update_item_quantity", "remove_item",
                       "merge_carts"}

Init ==
    /\ stock = [pr \in Products |-> InitStock(pr)]
    /\ details = [d \in DetailIds |-> NoDetail]
    /\ nextId = 1
    /\ lock = [pr \in Products |-> NoProc]
    /\ pc = [p \in Procs |-> "idle"]
    /\ req = [p \in Procs |-> NoReq]
    /\ existing = [p \in Procs |-> NoDetail]
    /\ pending = [p \in Procs |-> <<>>]
    /\ res = [p \in Procs |-> "none"]
    /\ nops = 0
    /\ last = NoLast
    /\ products = Products
    /\ cart = EmptyCart
    /\ cartReq = NoCartReq

\* ------------------------------------------------------------ primitives
Abs(x) == IF x < 0 THEN 0 - x ELSE x

\* select(...).where(id_key == id).first(): the committed row, or NoDetail
FindDetail(id) == IF id \in DetailIds THEN details[id] ELSE NoDetail

\* fault: the row is read without FOR UPDATE, so nobody waits
CanLockNoWait(p, pr) == TRUE

\* fault: the lock is taken on the whole product table
CanLockTable(p, pr) == \A x \in Products : lock[x] \in {NoProc, p}

\* SELECT ... FOR UPDATE returns at once when no row matches, and otherwise
\* waits until no other transaction holds the row's lock
CanLock(p, pr) == IF pr \in products THEN lock[pr] \in {NoProc, p} ELSE TRUE

\* fault: the end of a transaction leaves its row locks in place
ReleasedNothing(p) == lock

\* session.rollback() / session.close(): every row lock of p is released
Released(p) == [pr \in Products |-> IF lock[pr] = p THEN NoProc ELSE lock[pr]]

\* the service call of kind k returns or raises with outcome r
Finish(p, k, r) ==
    /\ pc' = [pc EXCEPT ![p] = "done"]
    /\ res' = [res EXCEPT ![p] = r]
    /\ req' = [req EXCEPT ![p] = [NoReq EXCEPT !.kind = k]]
    /\ existing' = [existing EXCEPT ![p] = NoDetail]

\* the except branch of save / repository.update / repository.remove:
\* session.rollback() drops the uncommitted stock and the row locks
Rollback(p) ==
    /\ lock' = Released(p)
    /\ pending' = [pending EXCEPT ![p] = <<>>]

\* the exception class behind each outcome of a request: the not-found raise
\* sites raise InstanceNotFoundError, the stock, price and field checks raise
\* ValueError, a fault of the database is some other Exception
Raised(r) ==
    IF r \in {"nf_order", "nf_product", "nf_detail"} THEN "InstanceNotFoundError"
    ELSE IF r \in {"insufficient", "price", "invalid", "has_sales"} THEN "ValueError"
    ELSE IF r = "conflict" THEN "IntegrityError"
    ELSE IF r = "fault" THEN "Exception"
    ELSE "none"

\* fault: no handler is registered for ValueError
StatusCodeNoValueError(e) ==
    IF e = "InstanceNotFoundError" THEN 404
    ELSE IF e = "IntegrityError" THEN 409
    ELSE 500

\* the exception handlers of the application: the status code of the response
StatusCode(e) ==
    IF e = "InstanceNotFoundError" THEN 404
    ELSE IF e = "ValueError" THEN 400
    ELSE IF e = "IntegrityError" THEN 409
    ELSE 500

\* fault: the stock check is off by one
CreateInsufficientOffByOne(s, q) == s <= q

\* ------------------------------------------------ OrderDetailService.save
CreateInsufficient(s, q) == s < q

\* fault: the submitted price is ignored
FinalPriceFromProduct(submitted, productPrice) == productPrice

FinalPrice(submitted, productPrice) ==
    IF submitted # NoVal THEN submitted ELSE productPrice

\* The prices are Python floats. For two prices that are exactly 0.01 apart
\* the double difference lies a rounding error below or above the double
\* 0.01: abs(0.04 - 0.03) = 0.010000000000000002 is above it, while
\* abs(10.0 - 9.99) = abs(9.98 - 9.99) = 0.009999999999999787 and
\* abs(0.02 - 0.03) = 0.009999999999999998 are below. For every other pair of
\* prices of the model the double comparison agrees with the exact one.
RoundsAbove(final, productPrice) == final = 40 /\ productPrice = 30

\* abs(final_price - product.price) > 0.01
PriceMismatch(final, productPrice) ==
    \/ Abs(final - productPrice) > PriceTolerance
    \/ /\ Abs(final - productPrice) = PriceTolerance
       /\ RoundsAbove(final, productPrice)

\* fault: the quantity is deducted twice
StockAfterCreateTwice(s, q) == s - q - q

StockAfterCreate(s, q) == s - q

NewDetail(r) ==
    [order |-> r.order, product |-> r.product,
     quantity |-> r.quantity, price |-> r.final]

\* prices a client can submit for product pr (schema: None or > 0)
CreatePrices(pr, offsets) ==
    IF pr \in Products
    THEN {NoVal} \cup {Price(pr) + off : off \in offsets}
    ELSE {NoVal}

\* the handler pool gives a new request to its first free handler
Free(p) == pc[p] = "idle" /\ \A q \in Procs : q < p => pc[q] # "idle"

\* the request arrives; step 1, order_repository.find, runs before the try
CreateArrives(p, offsets) ==
    /\ Free(p)
    /\ nops < MaxOps
    /\ nops' = nops + 1
    /\ \E o \in OrderIds, pr \in ProductIds, q \in 1 .. MaxQty :
         \E pz \in CreatePrices(pr, offsets) :
           IF o \notin Orders
           THEN /\ Finish(p, "create", "nf_order")
           ELSE /\ pc' = [pc EXCEPT ![p] = "c_lock"]
                /\ req' = [req EXCEPT ![p] =
                            [kind |-> "create", id |-> 0, order |-> o, product |-> pr,
                             quantity |-> q, price |-> pz, final |-> NoVal,
                             extra |-> FALSE]]
                /\ UNCHANGED <<res, existing>>
    /\ UNCHANGED <<stock, details, nextId, lock, pending, last, products>>
    /\ UNCHANGED cartVars

CreateStart(p) == CreateArrives(p, PriceOffsets)

\* the same request with every price offset around the tolerance
CreateStartPriced(p) == CreateArrives(p, AllPriceOffsets)

\* fault: the price is checked before the stock
CreateLockPriceFirst(p) ==
    /\ pc[p] = "c_lock"
    /\ LET r  == req[p]
           pr == r.product
       IN  /\ CanLock(p, pr)
           /\ IF pr \notin products
              THEN Finish(p, "create", "nf_product") /\ Rollback(p)
              ELSE IF PriceMismatch(FinalPrice(r.price, Price(pr)), Price(pr))
              THEN Finish(p, "create", "price") /\ Rollback(p)
              ELSE IF CreateInsufficient(stock[pr], r.quantity)
              THEN Finish(p, "create", "insufficient") /\ Rollback(p)
              ELSE /\ lock' = [lock EXCEPT ![pr] = p]
                   /\ pending' = [pending EXCEPT ![p] =
                                   <<StockAfterCreate(stock[pr], r.quantity)>>]
                   /\ req' = [req EXCEPT ![p].final = FinalPrice(r.price, Price(pr))]
                   /\ pc' = [pc EXCEPT ![p] = "c_commit"]
                   /\ UNCHANGED <<res, existing>>
    /\ UNCHANGED <<stock, details, nextId, nops, last, products>>
    /\ UNCHANGED cartVars

\* steps 2-6: lock the product row, validate, stage the decrement and the row
CreateLock(p) ==
    /\ pc[p] = "c_lock"
    /\ LET r  == req[p]
           pr == r.product
       IN  /\ CanLock(p, pr)
           /\ IF pr \notin products
              THEN Finish(p, "create", "nf_product") /\ Rollback(p)
              ELSE IF CreateInsufficient(stock[pr], r.quantity)
              THEN Finish(p, "create", "insufficient") /\ Rollback(p)
              ELSE IF PriceMismatch(FinalPrice(r.price, Price(pr)), Price(pr))
              THEN Finish(p, "create", "price") /\ Rollback(p)
              ELSE /\ lock' = [lock EXCEPT ![pr] = p]
                   /\ pending' = [pending EXCEPT ![p] =
                                   <<StockAfterCreate(stock[pr], r.quantity)>>]
                   /\ req' = [req EXCEPT ![p].final = FinalPrice(r.price, Price(pr))]
                   /\ pc' = [pc EXCEPT ![p] = "c_commit"]
                   /\ UNCHANGED <<res, existing>>
    /\ UNCHANGED <<stock, details, nextId, nops, last, products>>
    /\ UNCHANGED cartVars

\* step 7: session.commit() makes the decrement and the insert durable
CreateCommit(p) ==
    /\ pc[p] = "c_commit"
    /\ stock' = [stock EXCEPT ![req[p].product] = pending[p][1]]
    /\ details' = [details EXCEPT ![nextId] = NewDetail(req[p])]
    /\ nextId' = nextId + 1
    /\ last' = [id |-> nextId, stock |-> stock, details |-> details]
    /\ Rollback(p)
    /\ Finish(p, "create", "ok")
    /\ UNCHANGED <<nops, products>>
    /\ UNCHANGED cartVars

\* fault: no rollback in the except branch, the flushed decrement survives
CreateFaultNoRollback(p) ==
    /\ pc[p] = "c_commit"
    /\ stock' = [stock EXCEPT ![req[p].product] = pending[p][1]]
    /\ Rollback(p)
    /\ Finish(p, "create", "fault")
    /\ UNCHANGED <<details, nextId, nops, last, products>>
    /\ UNCHANGED cartVars

\* the flush or the commit raises (lock timeout, connection loss): the except
\* branch rolls back, the stock and the table keep their committed values
CreateFault(p) ==
    /\ pc[p] = "c_commit"
    /\ Rollback(p)
    /\ Finish(p, "create", "fault")
    /\ UNCHANGED <<stock, details, nextId, nops, last, products>>
    /\ UNCHANGED cartVars

\* the request handler returns; the session dependency closes the session,
\* which ends its transaction (rollback) and releases its locks
Close(p) ==
    /\ pc[p] = "done"
    /\ pc' = [pc EXCEPT ![p] = "idle"]
    /\ req' = [req EXCEPT ![p] = NoReq]
    /\ res' = [res EXCEPT ![p] = "none"]
    /\ Rollback(p)
    /\ UNCHANGED <<stock, details, nextId, existing, nops, last, products>>
    /\ UNCHANGED cartVars

\* fault: an increase is never checked against the stock
UpdateInsufficientNever(diff, s) == FALSE

\* fault: an increase that uses up the stock exactly is rejected
UpdateInsufficientOffByOne(diff, s) == diff > 0 /\ s <= diff

\* ---------------------------------------------- OrderDetailService.update
\* quantity_diff > 0 and product_model.stock < quantity_diff
UpdateInsufficient(diff, s) == diff > 0 /\ s < diff

\* fault: a decrease gives nothing back to the stock
StockAfterUpdateNoRestore(s, diff) == IF diff < 0 THEN s ELSE s - diff

\* product_model.stock -= quantity_diff
StockAfterUpdate(s, diff) == s - diff

\* fault: the product the order detail had is locked and adjusted
EffectiveProductExisting(p) == existing[p].product

\* product_id = schema.product_id if not None else existing.product_id
EffectiveProduct(p) ==
    IF req[p].product # NoVal THEN req[p].product ELSE existing[p].product

\* fault: the product row is locked whatever the Update carries
NeedsLockAlways(r) == TRUE

\* schema.product_id is not None or schema.quantity is not None
NeedsLock(r) == r.product # NoVal \/ r.quantity # NoVal

\* repository.update: setattr for every change whose value is not None
Patched(row, r) ==
    [order    |-> IF r.order # NoVal THEN r.order ELSE row.order,
     product  |-> IF r.product # NoVal THEN r.product ELSE row.product,
     quantity |-> IF r.quantity # NoVal THEN r.quantity ELSE row.quantity,
     price    |-> IF r.price # NoVal THEN r.price ELSE row.price]

\* fault: the commit persists the order-detail change without the stock
CommittedNothing(p, pr) == stock

\* the stock table after p's commit: the staged stock of the row p locked
Committed(p, pr) ==
    IF pending[p] # <<>> /\ pr \in products
    THEN [stock EXCEPT ![pr] = pending[p][1]]
    ELSE stock

\* the schemas update is called with: order_id, product_id, quantity and price
\* are each tested against None by the service and the repository; extra marks
\* a schema that also carries a field that is no column of the table
\* (OrderDetailSchema.id), whose other fields then never reach the row
UpdateRequests ==
    { [kind |-> "update", id |-> 0, order |-> o, product |-> pr,
       quantity |-> q, price |-> pz, final |-> NoVal, extra |-> FALSE] :
         o \in OrderIds \cup {NoVal}, pr \in ProductIds \cup {NoVal},
         q \in (1 .. MaxQty) \cup {NoVal}, pz \in UpdatePrices }
    \cup
    { [kind |-> "update", id |-> 0, order |-> NoVal, product |-> pr,
       quantity |-> q, price |-> NoVal, final |-> NoVal, extra |-> TRUE] :
         pr \in ProductIds \cup {NoVal}, q \in (1 .. MaxQty) \cup {NoVal} }

\* fault: the new order is looked up before the order detail
UpdateStartOrderFirst(p) ==
    /\ Free(p)
    /\ nops < MaxOps
    /\ nops' = nops + 1
    /\ \E id \in DetailKeys, r \in UpdateRequests :
         LET o == r.order
         IN  IF o # NoVal /\ o \notin Orders
             THEN Finish(p, "update", "nf_order")
             ELSE IF FindDetail(id) = NoDetail
             THEN Finish(p, "update", "nf_detail")
             ELSE /\ req' = [req EXCEPT ![p] = [r EXCEPT !.id = id]]
                  /\ existing' = [existing EXCEPT ![p] = FindDetail(id)]
                  /\ pc' = [pc EXCEPT ![p] =
                            IF NeedsLock(r) THEN "u_lock" ELSE "u_persist"]
                  /\ UNCHANGED res
    /\ UNCHANGED <<stock, details, nextId, lock, pending, last, products>>
    /\ UNCHANGED cartVars

\* the request arrives; repository.find(id_key) and the order check, no lock
UpdateStart(p) ==
    /\ Free(p)
    /\ nops < MaxOps
    /\ nops' = nops + 1
    /\ \E id \in DetailKeys, r \in UpdateRequests :
         LET o == r.order
         IN  IF FindDetail(id) = NoDetail
             THEN Finish(p, "update", "nf_detail")
             ELSE IF o # NoVal /\ o \notin Orders
             THEN Finish(p, "update", "nf_order")
             ELSE /\ req' = [req EXCEPT ![p] = [r EXCEPT !.id = id]]
                  /\ existing' = [existing EXCEPT ![p] = FindDetail(id)]
                  /\ pc' = [pc EXCEPT ![p] =
                            IF NeedsLock(r) THEN "u_lock" ELSE "u_persist"]
                  /\ UNCHANGED res
    /\ UNCHANGED <<stock, details, nextId, lock, pending, last, products>>
    /\ UNCHANGED cartVars

\* SELECT ... FOR UPDATE on the effective product and the stock adjustment;
\* an error raised here is re-raised without a rollback, so the row lock
\* stays with the session until it is closed
UpdateLock(p) ==
    /\ pc[p] = "u_lock"
    /\ LET r    == req[p]
           pr   == EffectiveProduct(p)
           diff == r.quantity - existing[p].quantity
       IN  /\ CanLock(p, pr)
           /\ IF pr \notin products
              THEN Finish(p, "update", "nf_product") /\ UNCHANGED <<lock, pending>>
              ELSE /\ lock' = [lock EXCEPT ![pr] = p]
                   /\ IF r.quantity # NoVal /\ r.quantity # existing[p].quantity
                      THEN IF UpdateInsufficient(diff, stock[pr])
                           THEN Finish(p, "update", "insufficient") /\ UNCHANGED pending
                           ELSE /\ pending' = [pending EXCEPT ![p] =
                                               <<StockAfterUpdate(stock[pr], diff)>>]
                                /\ pc' = [pc EXCEPT ![p] = "u_persist"]
                                /\ UNCHANGED <<req, existing, res>>
                      ELSE /\ pc' = [pc EXCEPT ![p] = "u_persist"]
                           /\ UNCHANGED <<req, existing, res, pending>>
    /\ UNCHANGED <<stock, details, nextId, nops, last, products>>
    /\ UNCHANGED cartVars

\* super().update -> repository.update: select the row, set the fields, commit.
\* A missing row is re-raised without rollback; a field that is no column of
\* the table raises ValueError, which rolls back
UpdatePersist(p) ==
    /\ pc[p] = "u_persist"
    /\ LET r   == req[p]
           row == FindDetail(r.id)
       IN  IF row = NoDetail
           THEN /\ Finish(p, "update", "nf_detail")
                /\ UNCHANGED <<stock, details, lock, pending, last>>
           ELSE IF r.extra
           THEN /\ Finish(p, "update", "invalid")
                /\ Rollback(p)
                /\ UNCHANGED <<stock, details, last>>
           ELSE /\ details' = [details EXCEPT ![r.id] = Patched(row, r)]
                /\ stock' = Committed(p, IF NeedsLock(r) THEN EffectiveProduct(p) ELSE 0)
                /\ last' = NoLast
                /\ Rollback(p)
                /\ Finish(p, "update", "ok")
    /\ UNCHANGED <<nextId, nops, products>>
    /\ UNCHANGED cartVars

\* fault: the except branch keeps the flushed stock adjustment
UpdateFaultNoRollback(p) ==
    /\ pc[p] = "u_persist"
    /\ FindDetail(req[p].id) # NoDetail
    /\ ~req[p].extra
    /\ stock' = Committed(p, IF NeedsLock(req[p]) THEN EffectiveProduct(p) ELSE 0)
    /\ Rollback(p)
    /\ Finish(p, "update", "fault")
    /\ UNCHANGED <<details, nextId, nops, last, products>>
    /\ UNCHANGED cartVars

\* session.commit() of repository.update raises: rollback
UpdateFault(p) ==
    /\ pc[p] = "u_persist"
    /\ FindDetail(req[p].id) # NoDetail
    /\ ~req[p].extra
    /\ Rollback(p)
    /\ Finish(p, "update", "fault")
    /\ UNCHANGED <<stock, details, nextId, nops, last, products>>
    /\ UNCHANGED cartVars

\* fault: the delete forgets to give the quantity back
RestoredStockNone(s, q) == s

\* ---------------------------------------------- OrderDetailService.delete
RestoredStock(s, q) == s + q

\* the request arrives; repository.find(id_key), no lock
DeleteStart(p) ==
    /\ Free(p)
    /\ nops < MaxOps
    /\ nops' = nops + 1
    /\ \E id \in DetailKeys :
         IF FindDetail(id) = NoDetail
         THEN Finish(p, "delete", "nf_detail")
         ELSE /\ req' = [req EXCEPT ![p] = [NoReq EXCEPT !.kind = "delete", !.id = id]]
              /\ existing' = [existing EXCEPT ![p] = FindDetail(id)]
              /\ pc' = [pc EXCEPT ![p] = "d_lock"]
              /\ UNCHANGED res
    /\ UNCHANGED <<stock, details, nextId, lock, pending, last, products>>
    /\ UNCHANGED cartVars

\* SELECT ... FOR UPDATE on the detail's product, then the staged restore
DeleteLock(p) ==
    /\ pc[p] = "d_lock"
    /\ LET pr == existing[p].product
       IN  /\ CanLock(p, pr)
           /\ IF pr \notin products
              THEN Finish(p, "delete", "nf_product") /\ UNCHANGED <<lock, pending>>
              ELSE /\ lock' = [lock EXCEPT ![pr] = p]
                   /\ pending' = [pending EXCEPT ![p] =
                                   <<RestoredStock(stock[pr], existing[p].quantity)>>]
                   /\ pc' = [pc EXCEPT ![p] = "d_remove"]
                   /\ UNCHANGED <<req, existing, res>>
    /\ UNCHANGED <<stock, details, nextId, nops, last, products>>
    /\ UNCHANGED cartVars

\* fault: remove does not look whether the row is still there and commits
DeleteRemoveUnchecked(p) ==
    /\ pc[p] = "d_remove"
    /\ details' = [details EXCEPT ![req[p].id] = NoDetail]
    /\ stock' = Committed(p, existing[p].product)
    /\ last' = NoLast
    /\ Rollback(p)
    /\ Finish(p, "delete", "ok")
    /\ UNCHANGED <<nextId, nops, products>>
    /\ UNCHANGED cartVars

\* super().delete -> repository.remove: select the row, delete it, commit.
\* A missing row is re-raised without rollback
DeleteRemove(p) ==
    /\ pc[p] = "d_remove"
    /\ IF FindDetail(req[p].id) = NoDetail
       THEN /\ Finish(p, "delete", "nf_detail")
            /\ UNCHANGED <<stock, details, lock, pending, last>>
       ELSE /\ details' = [details EXCEPT ![req[p].id] = NoDetail]
            /\ stock' = Committed(p, existing[p].product)
            /\ last' = IF last.id = req[p].id
                       THEN [last EXCEPT !.id = RoundTripDone]
                       ELSE NoLast
            /\ Rollback(p)
            /\ Finish(p, "delete", "ok")
    /\ UNCHANGED <<nextId, nops, products>>
    /\ UNCHANGED cartVars

\* fault: the except branch keeps the flushed stock restore
DeleteFaultNoRollback(p) ==
    /\ pc[p] = "d_remove"
    /\ FindDetail(req[p].id) # NoDetail
    /\ stock' = Committed(p, existing[p].product)
    /\ Rollback(p)
    /\ Finish(p, "delete", "fault")
    /\ UNCHANGED <<details, nextId, nops, last, products>>
    /\ UNCHANGED cartVars

\* session.commit() of repository.remove raises: rollback
DeleteFault(p) ==
    /\ pc[p] = "d_remove"
    /\ FindDetail(req[p].id) # NoDetail
    /\ Rollback(p)
    /\ Finish(p, "delete", "fault")
    /\ UNCHANGED <<stock, details, nextId, nops, last, products>>
    /\ UNCHANGED cartVars

\* fault: the sales history is not looked at
ReferencesNothing(pr) == FALSE

\* ------------------------------------------------- ProductService.delete
\* select(OrderDetailModel).where(product_id == id_key).limit(1).first()
References(pr) == \E d \in DetailIds : details[d] # NoDetail /\ details[d].product = pr

\* order_details.product_id is a foreign key on the product table: the
\* database refuses to delete a product row that a committed order detail
\* references
ForeignKeyViolated(pr) == \E d \in DetailIds : details[d].product = pr

\* the request arrives; the has_sales query, no lock
ProductDeleteStart(p) ==
    /\ Free(p)
    /\ nops < MaxOps
    /\ nops' = nops + 1
    /\ \E pr \in ProductIds :
         IF References(pr)
         THEN Finish(p, "pdelete", "has_sales")
         ELSE /\ req' = [req EXCEPT ![p] =
                         [NoReq EXCEPT !.kind = "pdelete", !.product = pr]]
              /\ pc' = [pc EXCEPT ![p] = "p_remove"]
              /\ UNCHANGED <<res, existing>>
    /\ UNCHANGED <<stock, details, nextId, lock, pending, last, products>>
    /\ UNCHANGED cartVars

\* super().delete -> repository.remove: select the product row, delete it,
\* commit. The DELETE waits for the row's lock
ProductDeleteRemove(p) ==
    /\ pc[p] = "p_remove"
    /\ LET pr == req[p].product
       IN  IF pr \notin products
           THEN /\ Finish(p, "pdelete", "nf_product")
                /\ UNCHANGED <<lock, pending, products>>
           ELSE /\ CanLock(p, pr)
                /\ Rollback(p)
                /\ IF ForeignKeyViolated(pr)
                   THEN Finish(p, "pdelete", "conflict") /\ UNCHANGED products
                   ELSE /\ Finish(p, "pdelete", "ok")
                        /\ products' = products \ {pr}
    /\ UNCHANGED <<stock, details, nextId, nops, last>>
    /\ UNCHANGED cartVars

\* session.commit() of repository.remove raises: rollback
ProductDeleteFault(p) ==
    /\ pc[p] = "p_remove"
    /\ req[p].product \in products
    /\ Rollback(p)
    /\ Finish(p, "pdelete", "fault")
    /\ UNCHANGED <<stock, details, nextId, nops, last, products>>
    /\ UNCHANGED cartVars

\* ------------------------------------------------------------------- cart
\* CartService on one session. get_cart returns what the last save_cart
\* stored (the empty cart at first); every operation reads the cart, changes
\* the item list, recalculates item_count and stores the cart.

\* index of the first item of product pid in items, 0 when there is none
FirstItem(items, pid) ==
    IF \E i \in 1 .. Len(items) : items[i].product_id = pid
    THEN CHOOSE i \in 1 .. Len(items) :
             /\ items[i].product_id = pid
             /\ \A j \in 1 .. i - 1 : items[j].product_id # pid
    ELSE 0

\* sum(item["quantity"] for item in items)
RECURSIVE SumQuantity(_)
SumQuantity(items) ==
    IF items = <<>> THEN 0
    ELSE Head(items).quantity + SumQuantity(Tail(items))

\* the cart with its totals recalculated
Recalculated(items) == [items |-> items, item_count |-> SumQuantity(items)]

\* fault: the item is appended without looking for the product in the cart
AddedItemAppended(items, pid, q) == Append(items, CartItem(pid, q))

\* the item list after one item is added: the first item of the product gets
\* the quantity on top, and without one a new item is appended
AddedItem(items, pid, q) ==
    LET i == FirstItem(items, pid)
    IN  IF i # 0
        THEN [items EXCEPT ![i].quantity = @ + q]
        ELSE Append(items, CartItem(pid, q))

add_item(c, pid, q) == Recalculated(AddedItem(c.items, pid, q))

\* the item list after update_item_quantity: quantity <= 0 filters the
\* product's items out, another quantity is stored in its first item
UpdatedItems(items, pid, q) ==
    IF q <= 0
    THEN SelectSeq(items, LAMBDA item : item.product_id # pid)
    ELSE LET i == FirstItem(items, pid)
         IN  IF i # 0 THEN [items EXCEPT ![i].quantity = q] ELSE items

update_item_quantity(c, pid, q) == Recalculated(UpdatedItems(c.items, pid, q))

remove_item(c, pid) == update_item_quantity(c, pid, 0)

\* the loop of merge_carts over the guest items, in their order; an appended
\* guest item is found by a later guest item of the same product
RECURSIVE MergedItems(_, _)
MergedItems(items, guest) ==
    IF guest = <<>> THEN items
    ELSE MergedItems(AddedItem(items, Head(guest).product_id, Head(guest).quantity),
                     Tail(guest))

merge_carts(c, guest) == Recalculated(MergedItems(c.items, guest))

\* guest carts that pass MergeCartSchema: items of quantity >= 1, the same
\* product possibly more than once
GuestCarts ==
    UNION {[1 .. n -> [product_id : ProductIds, quantity : 1 .. MaxCartQty]] :
               n \in 0 .. MaxGuestItems}

\* the operation stores cart c and returns it
CartServed(c, op, pid, q, guest) ==
    /\ c.item_count <= MaxCartCount
    /\ cart' = c
    /\ cartReq' = [op |-> op, product_id |-> pid, quantity |-> q, guest |-> guest]
    /\ UNCHANGED <<stock, details, nextId, lock, pc, req, existing, pending, res,
                   nops, last, products>>

\* POST /cart/items (AddToCartSchema: quantity >= 1)
AddItem ==
    \E pid \in ProductIds, q \in 1 .. MaxCartQty :
        CartServed(add_item(cart, pid, q), "add_item", pid, q, <<>>)

\* PUT /cart/items/{product_id} (UpdateCartItemSchema: quantity >= 0)
UpdateItemQuantity ==
    \E pid \in ProductIds, q \in 0 .. MaxCartQty :
        CartServed(update_item_quantity(cart, pid, q), "update_item_quantity",
                   pid, q, <<>>)

\* DELETE /cart/items/{product_id}
RemoveItem ==
    \E pid \in ProductIds :
        CartServed(remove_item(cart, pid), "remove_item", pid, 0, <<>>)

\* POST /cart/merge
MergeCarts ==
    \E guest \in GuestCarts :
        CartServed(merge_carts(cart, guest), "merge_carts", NoVal, NoVal, guest)

\* ---------------------------------------------------------- specifications
\* the cart operations of one session, one after the other
NextCart ==
    \/ AddItem
    \/ UpdateItemQuantity
    \/ RemoveItem
    \/ MergeCarts

SpecCart == Init /\ [][NextCart]_vars

Next ==
    \E p \in Procs :
        \/ CreateStart(p)
        \/ CreateLock(p)
        \/ CreateCommit(p)
        \/ CreateFault(p)
        \/ UpdateStart(p)
        \/ UpdateLock(p)
        \/ UpdatePersist(p)
        \/ UpdateFault(p)
        \/ DeleteStart(p)
        \/ DeleteLock(p)
        \/ DeleteRemove(p)
        \/ DeleteFault(p)
        \/ Close(p)

Spec == Init /\ [][Next]_vars

\* what handler p does once its request has arrived: the service call runs on
\* and the handler returns, whenever no row lock makes it wait
Progress(p) ==
    \/ CreateLock(p)
    \/ CreateCommit(p)
    \/ CreateFault(p)
    \/ UpdateLock(p)
    \/ UpdatePersist(p)
    \/ UpdateFault(p)
    \/ DeleteLock(p)
    \/ DeleteRemove(p)
    \/ DeleteFault(p)
    \/ Close(p)

\* fair scheduling: a handler that can go on does so eventually; the arrival
\* of requests is up to the clients and not fair
SpecFair == Spec /\ \A p \in Procs : WF_vars(Progress(p))

\* only Create requests arrive
NextCreate ==
    \E p \in Procs :
        \/ CreateStartPriced(p)
        \/ CreateLock(p)
        \/ CreateCommit(p)
        \/ CreateFault(p)
        \/ Close(p)

SpecCreate == Init /\ [][NextCreate]_vars

\* products are deleted next to the order-detail requests
NextProduct ==
    \E p \in Procs :
        \/ CreateStart(p)
        \/ CreateLock(p)
        \/ CreateCommit(p)
        \/ CreateFault(p)
        \/ UpdateStart(p)
        \/ UpdateLock(p)
        \/ UpdatePersist(p)
        \/ UpdateFault(p)
        \/ DeleteStart(p)
        \/ DeleteLock(p)
        \/ DeleteRemove(p)
        \/ DeleteFault(p)
        \/ ProductDeleteStart(p)
        \/ ProductDeleteRemove(p)
        \/ ProductDeleteFault(p)
        \/ Close(p)

SpecProduct == Init /\ [][NextProduct]_vars

\* only Create and Delete requests arrive
NextDelete ==
    \E p \in Procs :
        \/ CreateStart(p)
        \/ CreateLock(p)
        \/ CreateCommit(p)
        \/ CreateFault(p)
        \/ DeleteStart(p)
        \/ DeleteLock(p)
        \/ DeleteRemove(p)
        \/ DeleteFault(p)
        \/ Close(p)

SpecDelete == Init /\ [][NextDelete]_vars

\* ------------------------------------------------------------ properties
\* sum of the quantities of the order details in ids that reference product pr
RECURSIVE SumQty(_, _)
SumQty(ids, pr) ==
    IF ids = {} THEN 0
    ELSE LET d == CHOOSE x \in ids : TRUE
         IN  (IF details[d].product = pr THEN details[d].quantity ELSE 0)
             + SumQty(ids \ {d}, pr)

Reserved(pr) == SumQty(DetailIds, pr)

\* p's step ends a request of kind k
Ends(p, k) == pc[p] # "done" /\ pc'[p] = "done" /\ req'[p].kind = k

\* the request's price is absent or within 0.01 of the product's price
AcceptablePrice(r) ==
    \/ r.price = NoVal
    \/ /\ r.price <= Price(r.product) + 10
       /\ r.price >= Price(r.product) - 10

\* C1: when only Create requests run, under every interleaving the committed
\* quantities of a product sum to at most its initial stock N, the stock is N
\* minus that sum, and a Create that passed the order, product and price
\* checks is turned away only with the insufficient-stock error, and only when
\* its quantity exceeds the stock left by the Creates committed before it.
C1_NoOverselling ==
    /\ [](\A pr \in Products :
            /\ Reserved(pr) <= InitStock(pr)
            /\ stock[pr] = InitStock(pr) - Reserved(pr))
    /\ [][\A p \in Procs :
            (pc[p] = "c_lock" /\ Ends(p, "create") /\ req[p].product \in Products
               /\ res'[p] # "price")
            => (res'[p] = "insufficient"
                /\ req[p].quantity > stock[req[p].product])]_vars

\* two Creates were served side by side, one committed and took the last
\* unit, the other was refused for stock
C1_Witness ==
    \E p, q \in Procs, pr \in Products :
        /\ p # q
        /\ pc[p] = "done" /\ req[p].kind = "create" /\ res[p] = "ok"
        /\ pc[q] = "done" /\ req[q].kind = "create" /\ res[q] = "insufficient"
        /\ stock[pr] = 0
        /\ Reserved(pr) = InitStock(pr)

\* C2: in every committed state reached by any interleaving of Create, Update
\* and Delete, every product's stock is at least 0.
C2_StockNonNegative == \A pr \in Products : stock[pr] >= 0

\* an Update that asked for more than is left was refused, stock is at 0
C2_Witness ==
    \E p \in Procs, pr \in Products :
        /\ req[p].kind = "update" /\ res[p] = "insufficient"
        /\ lock[pr] = p
        /\ stock[pr] = 0

\* C3: for every product, stock plus the quantities of the order details that
\* reference it keeps its initial value in every committed state.
C3_Conservation ==
    \A pr \in Products : stock[pr] + Reserved(pr) = InitStock(pr)

\* C4: a Create that fails (order not found, product not found, insufficient
\* stock, price mismatch, fault at insert/commit) leaves the committed state
\* as it was: no stock changes and no order detail appears.
C4_FailedCreateChangesNothing ==
    [][\A p \in Procs :
         (Ends(p, "create") /\ res'[p] # "ok")
         => (stock' = stock /\ details' = details /\ nextId' = nextId)]_vars

\* a Create failed at commit, after its decrement had been staged, and one
\* was refused for its price
C4_Witness ==
    \E p, q \in Procs :
        /\ req[p].kind = "create" /\ res[p] = "fault"
        /\ req[q].kind = "create" /\ res[q] = "price"

\* C5: a Create that succeeds takes exactly its quantity off the stock of its
\* product, once, and inserts exactly one order detail with its order_id,
\* product_id and quantity; the other products' stock and the order details
\* that existed stay as they were.
C5_CreateEffect ==
    [][\A p \in Procs :
         (Ends(p, "create") /\ res'[p] = "ok")
         => LET r == req[p]
            IN  /\ stock' = [stock EXCEPT ![r.product] = @ - r.quantity]
                /\ details[nextId] = NoDetail
                /\ details'[nextId].order = r.order
                /\ details'[nextId].product = r.product
                /\ details'[nextId].quantity = r.quantity
                /\ \A d \in DetailIds \ {nextId} : details'[d] = details[d]]_vars

\* a Create of two units committed while another order detail existed
C5_Witness ==
    \E p \in Procs, d, e \in DetailIds :
        /\ req[p].kind = "create" /\ res[p] = "ok"
        /\ d = nextId - 1 /\ e # d
        /\ details[d].quantity = 2
        /\ details[e] # NoDetail

\* C6: with an existing order and product and an acceptable price, Create
\* gets past the stock check exactly when quantity <= product.stock and is
\* refused with the insufficient-stock error exactly when quantity > stock;
\* a Create of the whole stock commits and leaves stock 0.
C6_StockBoundary ==
    [][\A p \in Procs :
         LET r == req[p]
             s == stock[r.product]
         IN  /\ (pc[p] = "c_lock" /\ pc'[p] # "c_lock" /\ r.product \in Products)
                => /\ (res'[p] = "insufficient") <=> (r.quantity > s)
                   /\ AcceptablePrice(r)
                      => ((pc'[p] = "c_commit") <=> (r.quantity <= s))
                   /\ r.quantity = s + 1 => res'[p] = "insufficient"
             /\ (Ends(p, "create") /\ res'[p] = "ok" /\ r.quantity = s)
                => stock'[r.product] = 0]_vars

\* the latest Create asked for all that was left and the stock is now 0
C6_Witness ==
    /\ last.id \in DetailIds
    /\ details[last.id] # NoDetail
    /\ last.stock[details[last.id].product] = details[last.id].quantity
    /\ stock[details[last.id].product] = 0

\* C7: when a Create commits and the Delete of the order detail it made is the
\* next commit, the stock of every product and the order-detail table are
\* again what they were just before the Create.
C7_CreateDeleteRoundTrip ==
    last.id = RoundTripDone => (stock = last.stock /\ details = last.details)

\* a Create and the Delete of its order detail have just committed, with
\* another order detail on the same product in the table
C7_Witness ==
    /\ last.id = RoundTripDone
    /\ \E p \in Procs : req[p].kind = "delete" /\ res[p] = "ok"
    /\ \E d \in DetailIds : details[d] # NoDetail

\* C8: a Create that submits a price and has passed the stock check is
\* refused with the price-mismatch error exactly when the submitted price is
\* more than 0.01 above or more than 0.01 below the product's price, and goes
\* on to commit otherwise; price + 0.005 is accepted, price + 0.02 refused.
C8_PriceTolerance ==
    [][\A p \in Procs :
         LET r  == req[p]
             pp == Price(r.product)
         IN  (pc[p] = "c_lock" /\ pc'[p] # "c_lock" /\ r.product \in Products
                /\ r.quantity <= stock[r.product] /\ r.price # NoVal)
             => /\ (res'[p] = "price") <=> (r.price > pp + 10 \/ r.price < pp - 10)
                /\ (pc'[p] = "c_commit") <=> ~(r.price > pp + 10 \/ r.price < pp - 10)
                /\ r.price = pp + 5 => pc'[p] = "c_commit"
                /\ r.price = pp + 20 => res'[p] = "price"]_vars

\* C9: the order detail a Create stores carries the submitted price when one
\* was given and the product's price when none was, and a Create without a
\* submitted price is never refused with the price-mismatch error.
C9_PriceResolution ==
    [][\A p \in Procs :
         LET r == req[p]
         IN  /\ (Ends(p, "create") /\ res'[p] = "ok")
                => details'[nextId].price =
                     (IF r.price # NoVal THEN r.price ELSE Price(r.product))
             /\ (pc[p] = "c_lock" /\ r.price = NoVal)
                => res'[p] # "price"]_vars

\* a Create without a price has resolved it to the product's price and waits
\* to commit; the table holds a detail stored with a submitted price
C9_Witness ==
    /\ \E p \in Procs :
         /\ pc[p] = "c_commit"
         /\ req[p].price = NoVal
         /\ req[p].final = Price(req[p].product)
    /\ \E d \in DetailIds :
         /\ details[d] # NoDetail
         /\ details[d].price = Price(details[d].product) - 10

\* C10: an Update that raises the quantity of a detail and keeps its product,
\* with delta = newQuantity - (the quantity the Update loaded) > 0, passes the
\* stock check exactly when product.stock >= delta; when it commits, the stock
\* becomes stock - delta and the detail's quantity newQuantity; when it is
\* refused, with the insufficient-stock error, stock and detail are unchanged.
C10_UpdateIncrease ==
    [][\A p \in Procs :
         LET r     == req[p]
             pr    == existing[p].product
             delta == r.quantity - existing[p].quantity
         IN  (r.kind = "update" /\ r.product \in {NoVal, pr}
                /\ r.quantity # NoVal /\ delta > 0)
             => /\ (pc[p] = "u_lock" /\ pc'[p] # "u_lock")
                   => /\ (pc'[p] = "done" /\ res'[p] = "insufficient")
                           <=> (stock[pr] < delta)
                      /\ (pc'[p] = "u_persist") <=> (stock[pr] >= delta)
                      /\ stock' = stock /\ details' = details
                /\ (pc[p] = "u_persist" /\ Ends(p, "update") /\ res'[p] = "ok")
                   => /\ stock' = [stock EXCEPT ![pr] = @ - delta]
                      /\ details'[r.id].quantity = r.quantity
                /\ (pc[p] = "u_persist" /\ Ends(p, "update") /\ res'[p] # "ok")
                   => (stock' = stock /\ details' = details)]_vars

\* an Update that raises the quantity by all that is left has passed the
\* stock check and staged stock 0
C10_Witness ==
    \E p \in Procs :
        /\ pc[p] = "u_persist"
        /\ req[p].product \in {NoVal, existing[p].product}
        /\ req[p].quantity # NoVal
        /\ req[p].quantity > existing[p].quantity
        /\ stock[existing[p].product] = req[p].quantity - existing[p].quantity
        /\ pending[p] = <<0>>

\* C11: an Update that lowers the quantity of a detail and keeps its product,
\* with delta = newQuantity - (the quantity the Update loaded) < 0, is never
\* refused for stock, whatever the stock is (0 included): it always gets past
\* the stock check, and when it commits the stock of the product grows by
\* exactly oldQuantity - newQuantity and the detail's quantity is newQuantity.
C11_UpdateDecrease ==
    [][\A p \in Procs :
         LET r     == req[p]
             pr    == existing[p].product
             delta == r.quantity - existing[p].quantity
         IN  (r.kind = "update" /\ r.product \in {NoVal, pr}
                /\ r.quantity # NoVal /\ delta < 0)
             => /\ res'[p] # "insufficient"
                /\ (pc[p] = "u_lock" /\ pc'[p] # "u_lock") => pc'[p] = "u_persist"
                /\ (pc[p] = "u_persist" /\ Ends(p, "update") /\ res'[p] = "ok")
                   => /\ stock' = [stock EXCEPT ![pr] = @ + (existing[p].quantity
                                                             - r.quantity)]
                      /\ details'[r.id].quantity = r.quantity]_vars

\* an Update that lowers the quantity of a detail on a product whose stock
\* is 0 has passed the stock check and staged the quantity it gives back
C11_Witness ==
    \E p \in Procs :
        /\ pc[p] = "u_persist"
        /\ req[p].product \in {NoVal, existing[p].product}
        /\ req[p].quantity # NoVal
        /\ req[p].quantity < existing[p].quantity
        /\ stock[existing[p].product] = 0
        /\ pending[p] = <<existing[p].quantity - req[p].quantity>>

\* C12: an Update that fails (order detail, new order or product not found,
\* insufficient stock, a rejected or failed persist of the changed fields)
\* leaves the committed state as it was: the step that raises the error, and
\* the end of the failed request's transaction after it, change no product's
\* stock and no field of any order detail, also when the stock adjustment had
\* already been made inside the transaction.
C12_FailedUpdateChangesNothing ==
    [][\A p \in Procs :
         /\ (Ends(p, "update") /\ res'[p] # "ok")
            => (stock' = stock /\ details' = details)
         /\ (pc[p] = "done" /\ req[p].kind = "update" /\ res[p] # "ok"
               /\ pc'[p] # "done")
            => (stock' = stock /\ details' = details /\ pending'[p] = <<>>)]_vars

\* an Update has failed after it had adjusted the stock in its transaction:
\* the row it wanted to change was deleted in the meantime
C12_Witness ==
    \E p \in Procs :
        /\ pc[p] = "done"
        /\ req[p].kind = "update"
        /\ res[p] = "nf_detail"
        /\ pending[p] # <<>>

\* C13: a Delete that succeeds raises the stock of the product its order
\* detail references by exactly the quantity of the order detail it deletes
\* and removes that order detail, in one commit; the other products' stock and
\* the other order details stay as they were.
C13_DeleteEffect ==
    [][\A p \in Procs :
         (Ends(p, "delete") /\ res'[p] = "ok")
         => LET row == details[req[p].id]
            IN  /\ row # NoDetail
                /\ stock' = [stock EXCEPT ![row.product] = @ + row.quantity]
                /\ details' = [details EXCEPT ![req[p].id] = NoDetail]]_vars

\* C14: a Delete that fails (order detail not found, product row not found,
\* fault at delete/commit) leaves the committed state as it was: the step that
\* raises the error, and the end of the failed request's transaction after
\* it, restore no stock, and the order detail, if it existed, still exists.
C14_FailedDeleteChangesNothing ==
    [][\A p \in Procs :
         /\ (Ends(p, "delete") /\ res'[p] # "ok")
            => (stock' = stock /\ details' = details)
         /\ (pc[p] = "done" /\ req[p].kind = "delete" /\ res[p] # "ok"
               /\ pc'[p] # "done")
            => (stock' = stock /\ details' = details /\ pending'[p] = <<>>)]_vars

\* a Delete has failed after it had staged the restore under the row lock:
\* the order detail it had loaded was removed by another Delete in between
C14_Witness ==
    \E p, q \in Procs :
        /\ pc[p] = "done" /\ req[p].kind = "delete" /\ res[p] = "nf_detail"
        /\ pending[p] # <<>>
        /\ req[q].kind = "delete" /\ res[q] = "ok"

\* C15: stock is restored once per order detail. When only Create and Delete
\* requests run, under every interleaving (two Deletes of the same order
\* detail included) the stock of a product plus the quantities of its order
\* details keeps its initial value, so no quantity is given back twice; a
\* Delete that reaches the removal after another Delete has removed its order
\* detail fails with not-found and changes nothing, a Delete that finds its
\* order detail succeeds unless the commit faults, and an order detail that
\* was removed never comes back to be deleted again.
C15_RestoredOnce ==
    /\ [](\A pr \in Products : stock[pr] + Reserved(pr) = InitStock(pr))
    /\ [][\A p \in Procs :
            /\ (pc[p] = "d_remove" /\ pc'[p] # "d_remove")
               => IF details[req[p].id] = NoDetail
                  THEN res'[p] = "nf_detail" /\ stock' = stock /\ details' = details
                  ELSE /\ res'[p] \in {"ok", "fault"}
                       /\ res'[p] = "ok"
                          => /\ details'[req[p].id] = NoDetail
                             /\ stock' = [stock EXCEPT ![existing[p].product] =
                                                     @ + existing[p].quantity]
            /\ \A d \in DetailIds :
                 (d < nextId /\ details[d] = NoDetail) => details'[d] = NoDetail]_vars

\* two Deletes of the one order detail there is were served side by side: one
\* committed, the other staged the same restore and failed with not-found;
\* every stock is back at its initial value
C15_Witness ==
    \E p, q \in Procs :
        /\ p # q
        /\ pc[p] = "done" /\ req[p].kind = "delete" /\ res[p] = "ok"
        /\ pc[q] = "done" /\ req[q].kind = "delete" /\ res[q] = "nf_detail"
        /\ pending[q] # <<>>
        /\ nextId = 2
        /\ \A pr \in Products : stock[pr] = InitStock(pr)

\* C16: two Updates that change the quantity of the same order detail (on the
\* same product) are serialized by the row lock: when such an Update commits,
\* the old quantity it computed its delta from is the committed quantity of
\* the order detail, never a value read before another Update committed, so
\* its commit moves the stock by exactly -(newQuantity - committed quantity)
\* and after both Updates the stock is initial stock - (final quantity -
\* initial quantity).
C16_UpdatesSerialized ==
    [][\A p \in Procs :
         LET r   == req[p]
             row == details[r.id]
         IN  (pc[p] = "u_persist" /\ Ends(p, "update") /\ res'[p] = "ok"
                /\ r.quantity # NoVal
                /\ r.product \in {NoVal, row.product}
                /\ existing[p].product = row.product)
             => /\ existing[p].quantity = row.quantity
                /\ stock' = [stock EXCEPT ![row.product] =
                                        @ - (r.quantity - row.quantity)]]_vars

\* the id of the product row p's next step asks the lock of
LockTarget(p) ==
    IF pc[p] = "c_lock" THEN req[p].product
    ELSE IF pc[p] = "u_lock" THEN EffectiveProduct(p)
    ELSE existing[p].product

\* p's SELECT ... FOR UPDATE can return now
LockStepEnabled(p) ==
    ENABLED (CreateLock(p) \/ UpdateLock(p) \/ DeleteLock(p))

\* C17: operations on different products never block each other. A Create,
\* Update or Delete that is about to lock the row of product B goes on at
\* once unless another transaction holds the lock of B itself, whatever locks
\* are held or waited for on other products; and no transaction ever holds
\* the lock of more than one product row.
C17_DifferentProductsIndependent ==
    \A p \in Procs :
        /\ pc[p] \in {"c_lock", "u_lock", "d_lock"}
           => (LockStepEnabled(p)
                 <=> (LockTarget(p) \in Products
                        => lock[LockTarget(p)] \in {NoProc, p}))
        /\ Cardinality({pr \in Products : lock[pr] = p}) <= 1

\* one transaction holds the lock of product 1, another one that of product
\* 2, and both have staged their stock write
C17_Witness ==
    \E p, q \in Procs :
        /\ p # q
        /\ lock[1] = p /\ lock[2] = q
        /\ pending[p] # <<>> /\ pending[q] # <<>>

C19_ErrorsRolledBack ==
    \A p \in Procs :
        (pc[p] = "done"
           /\ res[p] \in {"nf_order", "nf_product", "nf_detail",
                          "insufficient", "price"})
        => /\ \A pr \in Products : lock[pr] # p
           /\ pending[p] = <<>>

\* the product row whose lock p holds
Locked(p) == CHOOSE pr \in Products : lock[pr] = p

\* C20: every write to a product's stock is made under that product's row
\* lock and becomes durable in the commit that persists the order-detail
\* change of the same request. A transaction with a staged stock write holds
\* a row lock; a step that changes the committed stock changes the one row its
\* committer has locked, to the value the committer staged, and in the same
\* step inserts the Create's order detail, stores the Update's new quantity or
\* removes the Delete's order detail; and a commit of a Create, of a Delete or
\* of a quantity-changing Update never persists the order-detail change
\* without the stock write staged with it.
C20_StockWrittenUnderLock ==
    /\ [](\A p \in Procs :
            pending[p] # <<>> => \E pr \in Products : lock[pr] = p)
    /\ [][/\ stock' # stock
             => \E p \in Procs :
                  /\ pending[p] # <<>>
                  /\ stock' = [stock EXCEPT ![Locked(p)] = pending[p][1]]
                  /\ pc'[p] = "done" /\ res'[p] = "ok"
                  /\ req[p].kind = "create"
                     => (details[nextId] = NoDetail /\ details'[nextId] # NoDetail)
                  /\ req[p].kind = "update"
                     => (details[req[p].id] # NoDetail
                         /\ details'[req[p].id].quantity = req[p].quantity)
                  /\ req[p].kind = "delete"
                     => (details[req[p].id] # NoDetail
                         /\ details'[req[p].id] = NoDetail)
          /\ \A p \in Procs :
               (pc[p] # "done" /\ pc'[p] = "done" /\ res'[p] = "ok")
               => /\ req[p].kind \in {"create", "delete"} => pending[p] # <<>>
                  /\ (req[p].kind = "update" /\ req[p].quantity # NoVal
                        /\ req[p].quantity # existing[p].quantity)
                     => pending[p] # <<>>
                  /\ pending[p] # <<>>
                     => (stock' # stock /\ stock'[Locked(p)] = pending[p][1])]_vars

\* a Delete holds its product's row lock with the restore staged, after an
\* Update of a quantity has committed
C20_Witness ==
    \E p, q \in Procs :
        /\ pc[p] = "d_remove"
        /\ lock[existing[p].product] = p
        /\ pending[p] # <<>>
        /\ pc[q] = "done" /\ req[q].kind = "update" /\ res[q] = "ok"
        /\ \A pr \in Products : stock[pr] < InitStock(pr)

\* C21: progress without deadlock. Under fair scheduling, with finitely many
\* requests, the system always comes back to a state where every request that
\* has arrived has finished, by a commit or an error, and its handler is free
\* again, and every product row lock is released; and no request that waits for a row lock holds one itself, so no
\* cycle of requests waiting for each other's locks exists.
C21_Progress ==
    /\ []<>(/\ \A p \in Procs : pc[p] = "idle"
            /\ \A pr \in Products : lock[pr] = NoProc)
    /\ [](\A p \in Procs :
            (pc[p] \in {"c_lock", "u_lock", "d_lock"} /\ ~LockStepEnabled(p))
            => \A pr \in Products : lock[pr] # p)

\* a request waits for the row lock of a product that a failed Update still
\* holds after it has returned
C21_Witness ==
    \E p, q \in Procs :
        /\ pc[p] \in {"c_lock", "u_lock", "d_lock"}
        /\ ~LockStepEnabled(p)
        /\ pc[q] = "done" /\ res[q] = "insufficient"
        /\ lock[LockTarget(p)] = q

\* C22: an Update that moves an order detail from product A to a product
\* B # A touches B only. It locks the row of B and never that of A; it is
\* refused for stock exactly when the quantity grows by delta = newQuantity -
\* oldQuantity > 0 and B's stock is below delta; and its commit leaves A's
\* stock as it is (the old quantity is not given back) and leaves B's stock
\* as it is when the quantity stays, and otherwise lowers it by delta, not by
\* newQuantity.
C22_ReassignTouchesTarget ==
    [][\A p \in Procs :
         LET r     == req[p]
             A     == existing[p].product
             B     == r.product
             qchg  == r.quantity # NoVal /\ r.quantity # existing[p].quantity
             delta == r.quantity - existing[p].quantity
         IN  (r.kind = "update" /\ B \in Products /\ B # A)
             => /\ (pc[p] = "u_lock" /\ pc'[p] # "u_lock")
                   => /\ lock'[B] = p
                      /\ lock'[A] = lock[A]
                      /\ (res'[p] = "insufficient")
                           <=> (qchg /\ delta > 0 /\ stock[B] < delta)
                      /\ pc'[p] = "u_persist" <=> res'[p] # "insufficient"
                /\ (pc[p] = "u_persist" /\ Ends(p, "update") /\ res'[p] = "ok")
                   => /\ stock'[A] = stock[A]
                      /\ stock'[B] = IF qchg THEN stock[B] - delta ELSE stock[B]
                      /\ details'[r.id].product = B]_vars

\* an Update that moves a detail of quantity 1 to another product and raises
\* the quantity to 2 has staged the target's stock less 1, not less 2
C22_Witness ==
    \E p \in Procs :
        /\ pc[p] = "u_persist"
        /\ req[p].product \in Products
        /\ req[p].product # existing[p].product
        /\ existing[p].quantity = 1
        /\ req[p].quantity = 2
        /\ lock[req[p].product] = p
        /\ lock[existing[p].product] # p
        /\ pending[p] = <<stock[req[p].product] - 1>>

\* C23: the checks of Create run in the order: order (without any lock),
\* product lock and lookup, stock, price. A Create that ends when it arrives
\* ends with not-found(order) and has taken no lock; one that goes on has an
\* existing order and still holds no lock; at the lock step a missing product
\* gives not-found(product), and on an existing product a quantity above the
\* stock gives the insufficient-stock error whatever the submitted price is,
\* so the price-mismatch error is only given when the stock suffices.
C23_CreateCheckOrder ==
    [][\A p \in Procs :
         LET r == req[p]
         IN  /\ (pc[p] = "idle" /\ pc'[p] = "done" /\ req'[p].kind = "create")
                => (res'[p] = "nf_order" /\ lock' = lock /\ pending' = pending)
             /\ (pc[p] = "idle" /\ pc'[p] = "c_lock")
                => (req'[p].order \in Orders /\ lock' = lock /\ pending' = pending)
             /\ (pc[p] = "c_lock" /\ pc'[p] # "c_lock")
                => /\ (res'[p] = "nf_product") <=> (r.product \notin Products)
                   /\ r.product \in Products
                      => /\ (r.quantity > stock[r.product])
                              <=> (res'[p] = "insufficient")
                         /\ (res'[p] = "price")
                              => (r.quantity <= stock[r.product]
                                  /\ r.price # NoVal)]_vars

\* a Create asks for more than the stock at a price 0.02 off and is about to
\* be checked, while a Create for a missing order has ended holding no lock
C23_Witness ==
    \E p, q \in Procs :
        /\ pc[p] = "c_lock"
        /\ req[p].product \in Products
        /\ req[p].quantity > stock[req[p].product]
        /\ req[p].price = Price(req[p].product) + 20
        /\ pc[q] = "done" /\ req[q].kind = "create" /\ res[q] = "nf_order"
        /\ \A pr \in Products : lock[pr] = NoProc

\* C24: the checks of Update run in the order: order detail, new order,
\* effective product, stock. An Update that ends when it arrives ends with
\* not-found(orderDetail) or not-found(order) and has taken no lock, and with
\* not-found(orderDetail) whenever no order detail exists, whatever order it
\* names; one that goes on has found its order detail and its new order, if
\* any, and holds no lock yet; at the lock step a missing effective product
\* gives not-found(product), and the insufficient-stock error is only given
\* for an existing product.
C24_UpdateCheckOrder ==
    [][\A p \in Procs :
         /\ (pc[p] = "idle" /\ pc'[p] = "done" /\ req'[p].kind = "update")
            => /\ res'[p] \in {"nf_detail", "nf_order"}
               /\ (\A d \in DetailIds : details[d] = NoDetail)
                  => res'[p] = "nf_detail"
               /\ res'[p] = "nf_order" => \E d \in DetailIds : details[d] # NoDetail
               /\ lock' = lock /\ pending' = pending
         /\ (pc[p] = "idle" /\ pc'[p] \in {"u_lock", "u_persist"})
            => /\ FindDetail(req'[p].id) # NoDetail
               /\ req'[p].order \in Orders \cup {NoVal}
               /\ lock' = lock /\ pending' = pending
         /\ (pc[p] = "u_lock" /\ pc'[p] # "u_lock")
            => /\ (res'[p] = "nf_product") <=> (EffectiveProduct(p) \notin Products)
               /\ res'[p] = "insufficient" => EffectiveProduct(p) \in Products
               /\ res'[p] \in {"none", "nf_product", "insufficient"}]_vars

\* an Update naming a missing order and an Update naming a missing product
\* have both ended, the first one without ever asking for a lock
C24_Witness ==
    \E p, q \in Procs :
        /\ pc[p] = "done" /\ req[p].kind = "update" /\ res[p] = "nf_order"
        /\ pc[q] = "done" /\ req[q].kind = "update" /\ res[q] = "nf_product"
        /\ \A pr \in Products : lock[pr] = NoProc

\* C25: an Update that carries neither a product id nor a quantity (only an
\* order id, say) goes from the order check straight to the persist step,
\* never holds a product row lock and changes no stock; an Update whose new
\* quantity equals the quantity of the order detail it loaded stages no stock
\* write and changes no stock.
C25_UpdateFrame ==
    [][\A p \in Procs :
         /\ (pc[p] = "idle" /\ pc'[p] # "idle" /\ req'[p].kind = "update"
               /\ req'[p].product = NoVal /\ req'[p].quantity = NoVal)
            => pc'[p] # "u_lock"
         /\ (req[p].kind = "update" /\ pc[p] \in {"u_lock", "u_persist"}
               /\ req[p].product = NoVal /\ req[p].quantity = NoVal)
            => /\ pc[p] = "u_persist"
               /\ \A pr \in Products : lock[pr] # p /\ lock'[pr] # p
               /\ pending[p] = <<>> /\ pending'[p] = <<>>
               /\ pc'[p] # pc[p] => stock' = stock
         /\ (req[p].kind = "update" /\ pc[p] \in {"u_lock", "u_persist"}
               /\ req[p].quantity # NoVal
               /\ req[p].quantity = existing[p].quantity)
            => /\ pending[p] = <<>> /\ pending'[p] = <<>>
               /\ pc'[p] # pc[p] => stock' = stock]_vars

\* an Update carrying only an order id is about to persist without a lock,
\* next to an Update that holds its row lock but, its quantity being the
\* loaded one, has staged no stock write
C25_Witness ==
    \E p, q \in Procs :
        /\ pc[p] = "u_persist"
        /\ req[p].product = NoVal /\ req[p].quantity = NoVal
        /\ req[p].order \in Orders
        /\ \A pr \in Products : lock[pr] # p
        /\ pc[q] = "u_persist"
        /\ req[q].quantity = existing[q].quantity
        /\ lock[existing[q].product] = q
        /\ pending[q] = <<>>

\* C26: an Update and a Delete of the same order detail do not race. If the
\* Update commits first, the Delete that commits after it works on the
\* updated order detail: the quantity and the product it restores are those
\* the row has when it is removed. If the Delete commits first, the Update
\* finds no row, fails with not-found and commits no stock adjustment. Either
\* way the stock ends where it was before the order detail was reserved.
C26_UpdateDeleteRaceFree ==
    [][\A p \in Procs :
         /\ (pc[p] = "d_remove" /\ Ends(p, "delete") /\ res'[p] = "ok")
            => /\ existing[p].quantity = details[req[p].id].quantity
               /\ existing[p].product = details[req[p].id].product
         /\ (pc[p] = "u_persist" /\ pc'[p] # "u_persist"
               /\ details[req[p].id] = NoDetail)
            => (res'[p] = "nf_detail" /\ stock' = stock /\ details' = details)]_vars

\* C27: the price of an order detail is a snapshot taken at creation: no step
\* changes the price of an order detail that exists, so after any sequence of
\* Updates the stored price is the one resolved when the detail was created.
C27_PriceIsSnapshot ==
    [][\A d \in DetailIds :
         (details[d] # NoDetail /\ details'[d] # NoDetail)
         => details'[d].price = details[d].price]_vars

C29_CartInv ==
    /\ \A i, j \in 1 .. Len(cart.items) :
           cart.items[i].product_id = cart.items[j].product_id => i = j
    /\ \A i \in 1 .. Len(cart.items) : cart.items[i].quantity >= 1
    /\ cart.item_count =
           LET qty == [i \in 1 .. Len(cart.items) |-> cart.items[i].quantity]
               Sum[n \in 0 .. Len(cart.items)] ==
                   IF n = 0 THEN 0 ELSE Sum[n - 1] + qty[n]
           IN  Sum[Len(cart.items)]

C29_CartConsistency ==
    /\ []C29_CartInv
    /\ [][cartReq'.op = "update_item_quantity" =>
            LET pid == cartReq'.product_id
                InCart(c) == \E i \in 1 .. Len(c.items) : c.items[i].product_id = pid
            IN  /\ cartReq'.quantity <= 0 =>
                     /\ ~InCart(cart')
                     /\ cart'.items = SelectSeq(cart.items,
                                          LAMBDA item : item.product_id # pid)
                /\ ~InCart(cart) => cart' = cart]_vars

\* a cart of two items, one of them grown by a merge, from which an update
\* with quantity 0 has just removed a third item
C29_Witness ==
    /\ cartReq.op = "update_item_quantity"
    /\ cartReq.quantity = 0
    /\ Len(cart.items) = 2
    /\ cart.item_count = 3
    /\ \A i \in 1 .. 2 : cart.items[i].product_id # cartReq.product_id

====
